---------------------------- MODULE Spec2Model ----------------------------
(***************************************************************************)
(* A model of great_expectations' BasicSuiteBuilderProfiler._profile and   *)
(* of DatabricksTableBatchKwargsGenerator.                                 *)
(*                                                                         *)
(* The profiler is a sequential program: _profile is modelled as a state   *)
(* machine whose steps are the phases of the method (validation of the     *)
(* configuration, the table-level expectations, one step per column of the *)
(* per-column loop, the removal of excluded / not included expectations,   *)
(* the return).  The dataset it drives (expectation storage, evaluation)   *)
(* lives outside the two source files; its operations are modelled from    *)
(* the calls the profiler makes on it.                                     *)
(***************************************************************************)
EXTENDS Integers, Sequences, FiniteSets, TLC

VARIABLES
    \* ---- BasicSuiteBuilderProfiler._profile ----
    configuration,          \* the `configuration` argument
    data,                   \* the dataset's content: column -> [cardinality, type]
    pc,                     \* position in _profile
    included_expectations,  \* local of _profile
    excluded_expectations,  \* local of _profile
    selected_columns,       \* local of _profile: [unordered, items]
    pending,                \* columns the per-column loop has still to visit
    column_cache,           \* local of _profile: column -> [cardinality, type]
    expectations,           \* dataset._expectation_suite.expectations
    catch_exceptions,       \* dataset default expectation argument
    interactive_evaluation, \* dataset config value
    visits,                 \* column -> number of iterations of the loop on it
    result,                 \* what _profile returned or raised
    \* ---- DatabricksTableBatchKwargsGenerator ----
    gen,                    \* the generator object: [constructed, database, spark],
                            \* and what obtaining the session did (session)
    sql_issued,             \* statements passed to spark.sql so far
    outcome                 \* what the last call returned or raised

profiler_vars == <<configuration, data, pc, included_expectations,
                   excluded_expectations, selected_columns, pending,
                   column_cache, expectations, catch_exceptions,
                   interactive_evaluation, visits, result>>
generator_vars == <<gen, sql_issued, outcome>>
vars == <<profiler_vars, generator_vars>>

(***************************************************************************)
(* Bounds of the model.                                                    *)
(***************************************************************************)
NumColumns == 2     \* columns of the profiled table
MaxListLen == 1     \* longest list under a configuration key
MaxSql == 2         \* statements the generator may pass to spark.sql

(***************************************************************************)
(* Python values that occur under configuration keys: None, False, a list. *)
(***************************************************************************)
None == [tag |-> "None", items |-> <<>>]
False == [tag |-> "False", items |-> <<>>]
List(s) == [tag |-> "list", items |-> s]

Range(s) == {s[i] : i \in 1..Len(s)}

\* A Python set, held as a sequence without repetitions; its iteration order
\* is not that of the sequence.
Set(s) == [tag |-> "set", items |-> s]

\* Python truthiness of such a value.
Truthy(v) == v.tag \in {"list", "set"} /\ Len(v.items) > 0

\* `v in [False, None, []]`
IsFalseNoneOrEmpty(v) == v.tag \in {"None", "False"} \/ (v.tag = "list" /\ v.items = <<>>)

SeqsUpTo(S, n) == UNION {[1..k -> S] : k \in 0..n}

(***************************************************************************)
(* The dataset's table.                                                    *)
(***************************************************************************)
ColumnNames == <<"c1", "c2", "c3", "c4">>
NonExistentColumn == "ghost"
NoColumn == "<table>"   \* kwargs.get("column", None) of a table expectation

\* dataset.get_table_columns()
get_table_columns == SubSeq(ColumnNames, 1, NumColumns)


\* ProfilerCardinality (great_expectations/profile/base.py)
ProfilerCardinality == <<"NONE", "ONE", "TWO", "VERY_FEW", "FEW", "MANY", "VERY_MANY", "UNIQUE">>

\* ProfilerDataType members the profiler tests for
ProfilerDataType == <<"INT", "FLOAT", "STRING", "DATETIME", "UNKNOWN">>

NumKinds == Len(ProfilerCardinality) * Len(ProfilerDataType)

\* The table number t: a family of tables in which every column takes every
\* (cardinality, type) pair, and neighbouring columns differ in both.
Table(t) ==
    [c \in Range(get_table_columns) |->
        LET i == CHOOSE j \in 1..NumColumns : get_table_columns[j] = c
        IN  [cardinality |-> ProfilerCardinality[((t + i) % Len(ProfilerCardinality)) + 1],
             type |-> ProfilerDataType[(((t \div Len(ProfilerCardinality)) + i)
                                          % Len(ProfilerDataType)) + 1]]]

Tables == {Table(t) : t \in 0..(NumKinds - 1)}

(***************************************************************************)
(* Expectation types.                                                      *)
(***************************************************************************)
TableExpectationTypes ==
    {"expect_table_row_count_to_be_between",
     "expect_table_column_count_to_equal",
     "expect_table_columns_to_match_ordered_list"}

ColumnExpectationTypes ==
    {"expect_column_unique_value_count_to_be_between",
     "expect_column_proportion_of_unique_values_to_be_between",
     "expect_column_values_to_be_in_type_list",
     "expect_column_values_to_not_be_null",
     "expect_column_distinct_values_to_be_in_set",
     "expect_column_kl_divergence_to_be_less_than",
     "expect_column_values_to_be_unique",
     "expect_column_min_to_be_between",
     "expect_column_max_to_be_between",
     "expect_column_mean_to_be_between",
     "expect_column_median_to_be_between",
     "expect_column_quantile_values_to_be_between",
     "expect_column_value_lengths_to_be_between",
     "expect_column_values_to_be_between"}

\* dataset.list_available_expectation_types(): the types the profiler uses
\* and one it never creates.
list_available_expectation_types ==
    TableExpectationTypes \cup ColumnExpectationTypes
        \cup {"expect_column_values_to_match_regex"}

\* The name the class docstring gives as an example; no dataset has it.
UnavailableExpectation == "expect_column_to_not_be_null"

(***************************************************************************)
(* The dataset's expectation suite: a sequence of expectation              *)
(* configurations [expectation_type, column, success, range].  `success`   *)
(* is success_on_last_run ("True", "False", or "None" when the expectation *)
(* was stored without being evaluated); `range` tells whether the          *)
(* min_value/max_value (or value_ranges) kwargs are None ("unset"), were   *)
(* computed from the observed value ("set"), or do not exist ("n/a").      *)
(***************************************************************************)
Expectation(type, column, success, range) ==
    [expectation_type |-> type, column |-> column, success |-> success, range |-> range]

\* ExpectationSuite.append_expectation: an expectation of the same type (and,
\* for a column expectation, on the same column) is replaced.
append_expectation(suite, e) ==
    Append(SelectSeq(suite,
                     LAMBDA x : ~(x.expectation_type = e.expectation_type
                                  /\ (e.column = NoColumn \/ x.column = e.column))),
           e)

\* ExpectationSuite.find_expectation_indexes(expectation_type, column)
find_expectation_indexes(suite, type, column) ==
    {i \in 1..Len(suite) :
        /\ suite[i].expectation_type = type
        /\ (column = NoColumn \/ suite[i].column = column)}

RemoveIndexes(suite, idx) ==
    LET keep[i \in 0..Len(suite)] ==
            IF i = 0 THEN <<>>
            ELSE IF i \in idx THEN keep[i - 1] ELSE Append(keep[i - 1], suite[i])
    IN  keep[Len(suite)]

\* DataAsset.remove_expectation: ValueError when nothing matches, or when
\* several match and remove_multiple_matches is not set.
remove_expectation(suite, type, column, remove_multiple_matches) ==
    LET idx == find_expectation_indexes(suite, type, column)
    IN  IF idx = {} \/ (Cardinality(idx) > 1 /\ ~remove_multiple_matches)
        THEN [raised |-> TRUE, suite |-> suite]
        ELSE [raised |-> FALSE, suite |-> RemoveIndexes(suite, idx)]

\* DataAsset.get_expectation_suite(discard_failed_expectations=...): a copy;
\* expectations whose success_on_last_run is False are left out on request.
get_expectation_suite(suite, discard_failed_expectations) ==
    IF discard_failed_expectations
    THEN SelectSeq(suite, LAMBDA x : x.success # "False")
    ELSE suite

\* The default of get_expectation_suite's discard_failed_expectations.
DiscardFailedByDefault == TRUE

\* suite.get_table_expectations() / suite.get_column_expectations()
get_table_expectations(suite) == SelectSeq(suite, LAMBDA x : x.column = NoColumn)
get_column_expectations(suite) == SelectSeq(suite, LAMBDA x : x.column # NoColumn)

(***************************************************************************)
(* The dataset as the profiler's helpers see it: the suite, the            *)
(* interactive_evaluation config value, and the exception (if any) that    *)
(* escaped a call and is propagating.                                      *)
(***************************************************************************)
Dataset(suite, interactive, error) ==
    [expectations |-> suite, interactive_evaluation |-> interactive, error |-> error]

\* dataset.expect_*(column, ...): the expectation is stored; it is evaluated
\* (success_on_last_run set) unless interactive_evaluation is False.
expect(ds, type, column, success, range) ==
    IF ds.error # "" THEN ds
    ELSE [ds EXCEPT !.expectations =
            append_expectation(@, Expectation(type, column,
                IF ds.interactive_evaluation = "False" THEN "None" ELSE success,
                range))]

\* dataset.remove_expectation(...) outside a try block
remove(ds, type, column) ==
    IF ds.error # "" THEN ds
    ELSE LET r == remove_expectation(ds.expectations, type, column, FALSE)
         IN  IF r.raised THEN [ds EXCEPT !.error = "ValueError"]
             ELSE [ds EXCEPT !.expectations = r.suite]

\* dataset.set_config_value("interactive_evaluation", value)
set_interactive(ds, value) ==
    IF ds.error # "" THEN ds ELSE [ds EXCEPT !.interactive_evaluation = value]

\* BasicDatasetProfilerBase._get_column_cardinality: two expectations on the
\* column are evaluated to read the number and proportion of unique values.
get_column_cardinality(ds, column) ==
    expect(expect(set_interactive(ds, "True"),
                  "expect_column_unique_value_count_to_be_between", column, "True", "unset"),
           "expect_column_proportion_of_unique_values_to_be_between", column, "True", "unset")

\* BasicDatasetProfilerBase._get_column_type: a type-list expectation on the
\* column is evaluated.
get_column_type(ds, column) ==
    expect(set_interactive(ds, "True"),
           "expect_column_values_to_be_in_type_list", column, "True", "n/a")

NoEntry == [cardinality |-> "", type |-> ""]

\* _get_column_type_with_caching: [ds, cache, value]
get_column_type_with_caching(ds, column, cache) ==
    IF cache[column].type # ""
    THEN [ds |-> ds, cache |-> cache, value |-> cache[column].type]
    ELSE [ds |-> set_interactive(
                    remove(get_column_type(ds, column),
                           "expect_column_values_to_be_in_type_list", NoColumn),
                    "True"),
          cache |-> [cache EXCEPT ![column].type = data[column].type],
          value |-> data[column].type]

\* _get_column_cardinality_with_caching: [ds, cache, value]
get_column_cardinality_with_caching(ds, column, cache) ==
    IF cache[column].cardinality # ""
    THEN [ds |-> ds, cache |-> cache, value |-> cache[column].cardinality]
    ELSE [ds |-> set_interactive(
                    remove(remove(get_column_cardinality(ds, column),
                                  "expect_column_unique_value_count_to_be_between", NoColumn),
                           "expect_column_proportion_of_unique_values_to_be_between", NoColumn),
                    "True"),
          cache |-> [cache EXCEPT ![column].cardinality = data[column].cardinality],
          value |-> data[column].cardinality]

(***************************************************************************)
(* What the dataset's queries report for one column, beyond cardinality    *)
(* and type:                                                               *)
(*   not_null   "success": no nulls; "mostly_success" / "mostly_failure":  *)
(*              nulls, and the second expectation (with mostly) passes or  *)
(*              fails                                                      *)
(*   lengths    success of expect_column_value_lengths_to_be_between       *)
(*   min_none, max_none   the observed min / max is None                   *)
(*   nan        the statistics whose observed value is NaN                 *)
(*   quantile_exception   the quantile query reports an exception          *)
(***************************************************************************)
Statistics == <<"min", "max", "mean", "median">>

StatisticExpectation(stat) == "expect_column_" \o stat \o "_to_be_between"

NotNullOutcomes == {"success", "mostly_success", "mostly_failure"}

Observation(nn, len, minn, maxn, nan, qe) ==
    [not_null |-> nn, lengths |-> len, min_none |-> minn, max_none |-> maxn,
     nan |-> nan, quantile_exception |-> qe]

\* _create_non_nullity_expectations
create_non_nullity_expectations(ds, column, obs) ==
    LET first == expect(ds, "expect_column_values_to_not_be_null", column,
                        IF obs.not_null = "success" THEN "True" ELSE "False", "n/a")
    IN  IF obs.not_null # "success"
        THEN expect(first, "expect_column_values_to_not_be_null", column,
                    IF obs.not_null = "mostly_success" THEN "True" ELSE "False", "n/a")
        ELSE first

\* _create_expectations_for_low_card_column
create_expectations_for_low_card_column(ds, column, column_cache_, obs) ==
    LET d1 == create_non_nullity_expectations(ds, column, obs)
        d2 == expect(d1, "expect_column_distinct_values_to_be_in_set", column, "True", "n/a")
        d3 == expect(d2, "expect_column_distinct_values_to_be_in_set", column, "True", "n/a")
        c  == get_column_cardinality_with_caching(d3, column, column_cache_)
    IN  [ds |-> IF c.value \in {"TWO", "VERY_FEW"}
                THEN expect(c.ds, "expect_column_kl_divergence_to_be_less_than",
                            column, "True", "n/a")
                ELSE c.ds,
         cache |-> c.cache]

\* _is_nan applied to the observed value of a statistic of a numeric column
\* (np.isnan raises TypeError only on a value that is not a number)
is_nan(obs, stat) == stat \in obs.nan

\* One observed statistic of _create_expectations_for_numeric_column: the
\* expectation is evaluated without bounds, then, unless the observed value
\* is NaN, stored again with observed_value -1 / +1.
create_statistic_expectation(ds, column, stat, obs) ==
    LET first == expect(ds, StatisticExpectation(stat), column, "True", "unset")
    IN  IF ~is_nan(obs, stat)
        THEN expect(first, StatisticExpectation(stat), column, "True", "set")
        ELSE first

\* _create_expectations_for_numeric_column
create_expectations_for_numeric_column(ds, column, obs) ==
    LET d0 == create_non_nullity_expectations(ds, column, obs)
        d1 == create_statistic_expectation(d0, column, "min", obs)
        d2 == create_statistic_expectation(d1, column, "max", obs)
        d3 == create_statistic_expectation(d2, column, "mean", obs)
        d4 == create_statistic_expectation(d3, column, "median", obs)
        q  == expect(d4, "expect_column_quantile_values_to_be_between", column,
                     IF obs.quantile_exception THEN "False" ELSE "True", "unset")
    IN  IF obs.quantile_exception
        THEN q
        ELSE set_interactive(
                expect(set_interactive(q, "False"),
                       "expect_column_quantile_values_to_be_between", column, "True", "set"),
                "True")

\* _create_expectations_for_string_column
create_expectations_for_string_column(ds, column, obs) ==
    expect(create_non_nullity_expectations(ds, column, obs),
           "expect_column_value_lengths_to_be_between", column,
           IF obs.lengths THEN "True" ELSE "False", "n/a")

\* _create_expectations_for_datetime_column
create_expectations_for_datetime_column(ds, column, obs) ==
    LET d0 == create_non_nullity_expectations(ds, column, obs)
        d1 == expect(d0, "expect_column_min_to_be_between", column, "True", "unset")
        d2 == IF ~obs.min_none
              THEN remove(d1, "expect_column_min_to_be_between", column) ELSE d1
        d3 == expect(d2, "expect_column_max_to_be_between", column, "True", "unset")
        d4 == IF ~obs.max_none
              THEN remove(d3, "expect_column_max_to_be_between", column) ELSE d3
    IN  IF ~obs.min_none \/ ~obs.max_none
        THEN expect(d4, "expect_column_values_to_be_between", column, "True", "n/a")
        ELSE d4

(***************************************************************************)
(* The configuration argument: None, or a dict from keys to values.        *)
(***************************************************************************)
NoConfiguration == [tag |-> "None", items |-> <<>>]
Dict(f) == [tag |-> "dict", items |-> f]

\* `key in configuration`
HasKey(cfg, key) == cfg.tag = "dict" /\ key \in DOMAIN cfg.items

\* `if configuration:`
ConfigurationGiven(cfg) == cfg.tag = "dict" /\ DOMAIN cfg.items # {}

\* _check_that_expectations_are_available: TRUE when it raises ProfilerError
check_that_expectations_are_available(names) ==
    /\ Truthy(names)
    /\ \E e \in Range(names.items) : e \notin list_available_expectation_types

\* _check_that_columns_exist: TRUE when it raises ProfilerError
check_that_columns_exist(columns) ==
    /\ Truthy(columns)
    /\ \E c \in Range(columns.items) : c \notin Range(get_table_columns)


\* A variant of the check on the expectation keys that tests the values
\* under the keys instead of their presence.
ExpectationKeysConflictByValue(cfg) ==
    /\ HasKey(cfg, "included_expectations") /\ Truthy(cfg.items["included_expectations"])
    /\ HasKey(cfg, "excluded_expectations") /\ Truthy(cfg.items["excluded_expectations"])

\* _profile, lines 394-397: both expectation keys are given
ExpectationKeysConflict(cfg) ==
    HasKey(cfg, "included_expectations") /\ HasKey(cfg, "excluded_expectations")


\* A variant of the check on the column keys that is skipped when an
\* expectation key was handled before it.
ColumnKeysConflictUnlessExpectations(cfg) ==
    /\ HasKey(cfg, "included_columns") /\ HasKey(cfg, "excluded_columns")
    /\ ~HasKey(cfg, "included_expectations")
    /\ ~HasKey(cfg, "excluded_expectations")

\* _profile, lines 410-413: both column keys are given
ColumnKeysConflict(cfg) ==
    HasKey(cfg, "included_columns") /\ HasKey(cfg, "excluded_columns")

\* _profile, lines 401-404: the local included_expectations
IncludedExpectations(cfg) ==
    IF ConfigurationGiven(cfg) /\ HasKey(cfg, "included_expectations")
    THEN IF IsFalseNoneOrEmpty(cfg.items["included_expectations"])
         THEN None
         ELSE cfg.items["included_expectations"]
    ELSE List(<<>>)

\* _profile, lines 406-407: the local excluded_expectations
ExcludedExpectations(cfg) ==
    IF ConfigurationGiven(cfg) /\ HasKey(cfg, "excluded_expectations")
    THEN cfg.items["excluded_expectations"]
    ELSE List(<<>>)


\* A variant of the column selection that never leaves the default.
SelectedColumnsIgnored(cfg) == List(get_table_columns)

\* _profile, lines 389 and 417-423: the local selected_columns
SelectedColumns(cfg) ==
    IF ConfigurationGiven(cfg) /\ HasKey(cfg, "included_columns")
    THEN cfg.items["included_columns"]
    ELSE IF ConfigurationGiven(cfg) /\ HasKey(cfg, "excluded_columns")
    THEN LET excluded_columns ==
                IF IsFalseNoneOrEmpty(cfg.items["excluded_columns"])
                THEN <<>>
                ELSE cfg.items["excluded_columns"].items
         IN  Set(SelectSeq(get_table_columns, LAMBDA c : c \notin Range(excluded_columns)))
    ELSE List(get_table_columns)

\* _profile, lines 393-425: TRUE when a ProfilerError is raised
ConfigurationRejected(cfg) ==
    \/ /\ ConfigurationGiven(cfg)
       /\ \/ ExpectationKeysConflict(cfg)
          \/ check_that_expectations_are_available(IncludedExpectations(cfg))
          \/ check_that_expectations_are_available(ExcludedExpectations(cfg))
          \/ ColumnKeysConflict(cfg)
    \/ check_that_columns_exist(SelectedColumns(cfg))

(***************************************************************************)
(* Removal of expectations at the end of _profile.                         *)
(***************************************************************************)
\* A sequence of remove_expectation calls, each inside try / except
\* ValueError: a call that raises removes nothing.
RECURSIVE TryRemoveFrom(_, _, _)
TryRemoveFrom(suite, calls, i) ==
    IF i > Len(calls) THEN suite
    ELSE TryRemoveFrom(
            CHOOSE s \in {LET r == remove_expectation(suite, calls[i].expectation_type,
                                                      calls[i].column, calls[i].multiple)
                          IN  IF r.raised THEN suite ELSE r.suite} : TRUE,
            calls, i + 1)

TryRemoveAll(suite, calls) == TryRemoveFrom(suite, calls, 1)

TypesOf(suite) == [i \in 1..Len(suite) |-> suite[i].expectation_type]

\* _remove_table_expectations
remove_table_expectations(suite, all_types_to_remove) ==
    LET table_expectations == get_table_expectations(get_expectation_suite(suite, FALSE))
        removals == SelectSeq(TypesOf(table_expectations),
                              LAMBDA t : t \in Range(all_types_to_remove))
    IN  TryRemoveAll(suite,
            [i \in 1..Len(removals) |->
                [expectation_type |-> removals[i], column |-> NoColumn, multiple |-> FALSE]])


\* A variant of _remove_column_expectations that reads the suite with the
\* default arguments, failed expectations discarded.
remove_column_expectations_of_passing(suite, all_types_to_remove) ==
    LET column_expectations == get_column_expectations(get_expectation_suite(suite, TRUE))
        removals == SelectSeq(TypesOf(column_expectations),
                              LAMBDA t : t \in Range(all_types_to_remove))
        n == Len(removals)
    IN  TryRemoveAll(suite,
            [k \in 1..(Len(get_table_columns) * n) |->
                [expectation_type |-> removals[((k - 1) % n) + 1],
                 column |-> get_table_columns[((k - 1) \div n) + 1],
                 multiple |-> FALSE]])

\* _remove_column_expectations
remove_column_expectations(suite, all_types_to_remove) ==
    LET column_expectations == get_column_expectations(get_expectation_suite(suite, FALSE))
        removals == SelectSeq(TypesOf(column_expectations),
                              LAMBDA t : t \in Range(all_types_to_remove))
        n == Len(removals)
    IN  TryRemoveAll(suite,
            [k \in 1..(Len(get_table_columns) * n) |->
                [expectation_type |-> removals[((k - 1) % n) + 1],
                 column |-> get_table_columns[((k - 1) \div n) + 1],
                 multiple |-> FALSE]])

\* _profile, lines 480-493: the expectations whose type is not included are
\* removed; the loop runs over dataset.get_expectation_suite().expectations
remove_not_included(suite, included) ==
    LET listed == SelectSeq(get_expectation_suite(suite, DiscardFailedByDefault),
                            LAMBDA e : e.expectation_type \notin Range(included))
    IN  TryRemoveAll(suite,
            [i \in 1..Len(listed) |->
                [expectation_type |-> listed[i].expectation_type,
                 column |-> listed[i].column, multiple |-> TRUE]])

(***************************************************************************)
(* What the queries may report for a column of a given cardinality and     *)
(* type: only the queries the profiler makes on such a column vary.        *)
(***************************************************************************)
NanSets == {{}, Range(Statistics)}

LowCardinalities == {"TWO", "VERY_FEW", "FEW"}
HighCardinalities == {"MANY", "VERY_MANY", "UNIQUE"}

ObservationsFor(kind) ==
    IF kind.cardinality \in LowCardinalities
    THEN {Observation(nn, TRUE, FALSE, FALSE, {}, FALSE) : nn \in NotNullOutcomes}
    ELSE IF kind.cardinality \in HighCardinalities /\ kind.type \in {"INT", "FLOAT"}
    THEN {Observation(x[1], TRUE, FALSE, FALSE, x[2], x[3]) :
            x \in NotNullOutcomes \X NanSets \X BOOLEAN}
    ELSE IF kind.cardinality \in HighCardinalities /\ kind.type = "DATETIME"
    THEN {Observation(x[1], TRUE, x[2], x[3], {}, FALSE) :
            x \in NotNullOutcomes \X BOOLEAN \X BOOLEAN}
    ELSE IF kind.cardinality \in HighCardinalities /\ kind.type = "STRING"
    THEN {Observation(x[1], x[2], FALSE, FALSE, {}, FALSE) :
            x \in NotNullOutcomes \X BOOLEAN}
    ELSE {Observation("success", TRUE, FALSE, FALSE, {}, FALSE)}

(***************************************************************************)
(* BasicSuiteBuilderProfiler._profile                                      *)
(***************************************************************************)
NoResult == [kind |-> "none", expectations |-> <<>>]
Raised(exception) == [kind |-> exception, expectations |-> <<>>]
Returned(suite) == [kind |-> "suite", expectations |-> suite]

\* _build_column_description_metadata: the suite of the dataset, failed
\* expectations included, with the column descriptions in its meta
build_column_description_metadata(suite) == get_expectation_suite(suite, FALSE)

\* _build_table_row_count_expectation
build_table_row_count_expectation(ds) ==
    expect(expect(ds, "expect_table_row_count_to_be_between", NoColumn, "True", "unset"),
           "expect_table_row_count_to_be_between", NoColumn, "True", "set")

\* _build_table_column_expectations
build_table_column_expectations(ds) ==
    expect(expect(ds, "expect_table_column_count_to_equal", NoColumn, "True", "n/a"),
           "expect_table_columns_to_match_ordered_list", NoColumn, "True", "n/a")

\* A variant of _profile that builds the table-level expectations before it
\* checks the configuration.
dataset_after_setup(ds) ==
    build_table_column_expectations(
        set_interactive(build_table_row_count_expectation(ds), "True"))

\* The dataset as lines 384-430 leave it: they call get_table_columns,
\* list_available_expectation_types and get_expectation_suite on it, which
\* only read, and the early return empties the copy of the suite it returns.
dataset_after_validation(ds) == ds

\* Lines 384-430: the configuration is read and checked.
ProfileValidate ==
    /\ pc = "start"
    /\ \E ds \in {dataset_after_validation(
                    Dataset(expectations, interactive_evaluation, ""))} :
        /\ expectations' = ds.expectations
        /\ interactive_evaluation' = ds.interactive_evaluation
    /\ IF ConfigurationRejected(configuration)
       THEN /\ pc' = "raised"
            /\ result' = Raised("ProfilerError")
            /\ UNCHANGED <<included_expectations, excluded_expectations, selected_columns>>
       ELSE /\ included_expectations' = IncludedExpectations(configuration)
            /\ excluded_expectations' = ExcludedExpectations(configuration)
            /\ selected_columns' = SelectedColumns(configuration)
            /\ IF IncludedExpectations(configuration) = None
               THEN /\ pc' = "returned"
                    /\ result' = Returned(<<>>)
               ELSE /\ pc' = "setup"
                    /\ result' = result
    /\ UNCHANGED <<configuration, data, pending, column_cache, catch_exceptions,
                   visits, generator_vars>>

\* Lines 432-438: the table-level expectations.
ProfileSetup ==
    /\ pc = "setup"
    /\ catch_exceptions' = "False"
    /\ \E ds \in {build_table_column_expectations(
                    set_interactive(
                        build_table_row_count_expectation(
                            Dataset(expectations, interactive_evaluation, "")),
                        "True"))} :
           /\ expectations' = ds.expectations
           /\ interactive_evaluation' = ds.interactive_evaluation
    /\ column_cache' = [c \in Range(get_table_columns) |-> NoEntry]
    /\ pending' = IF Truthy(selected_columns) THEN selected_columns.items ELSE <<>>
    /\ pc' = "loop"
    /\ UNCHANGED <<configuration, data, included_expectations, excluded_expectations,
                   selected_columns, visits, result, generator_vars>>

\* Lines 440-475: the body of the per-column loop.
profile_column(ds, column, cache, obs) ==
    LET card == get_column_cardinality_with_caching(ds, column, cache)
        type == get_column_type_with_caching(card.ds, column, card.cache)
    IN  IF card.value \in {"TWO", "VERY_FEW", "FEW"}
        THEN create_expectations_for_low_card_column(type.ds, column, type.cache, obs)
        ELSE IF card.value \in {"MANY", "VERY_MANY", "UNIQUE"}
        THEN LET u == expect(type.ds, "expect_column_values_to_be_unique", column,
                             IF card.value = "UNIQUE" THEN "True" ELSE "False", "n/a")
             IN  [ds |-> IF type.value \in {"INT", "FLOAT"}
                         THEN create_expectations_for_numeric_column(u, column, obs)
                         ELSE IF type.value = "DATETIME"
                         THEN create_expectations_for_datetime_column(u, column, obs)
                         ELSE IF type.value = "STRING"
                         THEN create_expectations_for_string_column(u, column, obs)
                         ELSE u,
                  cache |-> type.cache]
        ELSE [ds |-> type.ds, cache |-> type.cache]

\* Lines 439-475: one iteration of `for column in selected_columns`.  A list
\* is visited in order; a set in any order.
ProfileColumn ==
    /\ pc = "loop"
    /\ pending # <<>>
    /\ \E i \in 1..Len(pending) :
        /\ selected_columns.tag = "set" \/ i = 1
        /\ LET column == pending[i]
           IN  \E obs \in ObservationsFor(data[column]) :
                \E r \in {profile_column(Dataset(expectations, interactive_evaluation, ""),
                                         column, column_cache, obs)} :
                    /\ expectations' = r.ds.expectations
                    /\ interactive_evaluation' = r.ds.interactive_evaluation
                    /\ column_cache' = r.cache
                    /\ visits' = [visits EXCEPT ![column] = @ + 1]
                    /\ pending' = RemoveIndexes(pending, {i})
                    /\ IF r.ds.error # ""
                       THEN pc' = "raised" /\ result' = Raised(r.ds.error)
                       ELSE pc' = "loop" /\ result' = result
    /\ UNCHANGED <<configuration, data, included_expectations, excluded_expectations,
                   selected_columns, catch_exceptions, generator_vars>>

\* Lines 477-493: excluded expectations, then expectations not included,
\* are removed from the dataset's suite.
remove_unwanted(suite, excluded, included) ==
    LET s1 == IF Truthy(excluded)
              THEN remove_column_expectations(
                       remove_table_expectations(suite, excluded.items), excluded.items)
              ELSE suite
    IN  IF Truthy(included) THEN remove_not_included(s1, included.items) ELSE s1

ProfileRemove ==
    /\ pc = "loop"
    /\ pending = <<>>
    /\ expectations' = remove_unwanted(expectations, excluded_expectations,
                                       included_expectations)
    /\ pc' = "removed"
    /\ UNCHANGED <<configuration, data, included_expectations, excluded_expectations,
                   selected_columns, pending, column_cache, catch_exceptions,
                   interactive_evaluation, visits, result, generator_vars>>

\* Lines 495-497: the suite is returned.
ProfileReturn ==
    /\ pc = "removed"
    /\ result' = Returned(build_column_description_metadata(expectations))
    /\ pc' = "returned"
    /\ UNCHANGED <<configuration, data, included_expectations, excluded_expectations,
                   selected_columns, pending, column_cache, expectations,
                   catch_exceptions, interactive_evaluation, visits, generator_vars>>

(***************************************************************************)
(* DatabricksTableBatchKwargsGenerator                                     *)
(***************************************************************************)
PyNone == "<None>"      \* Python's None among keyword values
DatabaseNames == {"default", "sales"}
TableNames == <<"events", "users">>
KeywordValues == {PyNone, "", "2020-01-01", "dt"}
KeywordArguments ==
    UNION {[K -> KeywordValues] : K \in SUBSET {"partition", "date_field"}}

\* kwargs.get(key)
kwargs_get(kwargs, key) == IF key \in DOMAIN kwargs THEN kwargs[key] ELSE PyNone

\* truthiness of a keyword value
KeywordTruthy(v) == v \notin {PyNone, ""}

NoOutcome ==
    [op |-> "none", generator_asset |-> "", kwargs |-> <<>>, raised |-> FALSE,
     value |-> <<>>]


\* A variant of __init__ whose except branch logs the error and leaves
\* self.spark unassigned.
init_spark_unassigned(session) == IF session = "available" THEN "session" ELSE "unset"

\* __init__: the session is kept, or None when obtaining it raised (the
\* import failed and the name is unbound, or getOrCreate raised)
init_spark(session) == IF session = "available" THEN "session" ELSE "None"

SessionOutcomes == {"available", "import missing", "getOrCreate raises"}

Construct ==
    /\ ~gen.constructed
    /\ \E database \in DatabaseNames, session \in SessionOutcomes :
        gen' = [constructed |-> TRUE, database |-> database,
                spark |-> init_spark(session), session |-> session]
    /\ outcome' = [NoOutcome EXCEPT !.op = "__init__"]
    /\ UNCHANGED <<sql_issued, profiler_vars>>

\* get_available_data_asset_names: the statement it issues, if any
show_tables(generator) ==
    IF generator.spark = "None" THEN <<>> ELSE <<"show tables in " \o generator.database>>

GetAvailableDataAssetNames ==
    /\ gen.constructed
    /\ Len(sql_issued) + Len(show_tables(gen)) <= MaxSql
    /\ sql_issued' = sql_issued \o show_tables(gen)
    /\ \E n \in 0..Len(TableNames) :
        outcome' = [op |-> "get_available_data_asset_names", generator_asset |-> "",
                    kwargs |-> <<>>, raised |-> FALSE,
                    value |-> IF show_tables(gen) = <<>> THEN <<>>
                              ELSE [i \in 1..n |-> <<TableNames[i], "table">>]]
    /\ UNCHANGED <<gen, profiler_vars>>


\* A variant of the check in _get_iterator that tests the presence of the
\* date_field keyword instead of its value.
get_iterator_raises_if_absent(kwargs) ==
    /\ KeywordTruthy(kwargs_get(kwargs, "partition"))
    /\ "date_field" \notin DOMAIN kwargs

\* _get_iterator, lines 38-40: the call raises
get_iterator_raises(kwargs) ==
    /\ KeywordTruthy(kwargs_get(kwargs, "partition"))
    /\ ~KeywordTruthy(kwargs_get(kwargs, "date_field"))

\* str.format of a keyword value
Format(v) == IF v = PyNone THEN "None" ELSE v

\* A variant of _get_iterator's query that filters whenever a date_field is
\* given, with or without a partition.
get_iterator_query_by_date_field(generator, generator_asset, kwargs) ==
    LET query == "select * from " \o generator.database \o "." \o generator_asset
    IN  IF KeywordTruthy(kwargs_get(kwargs, "date_field"))
        THEN query \o " where " \o Format(kwargs_get(kwargs, "date_field"))
                   \o " = \"" \o Format(kwargs_get(kwargs, "partition")) \o "\""
        ELSE query

\* _get_iterator, lines 37-41: the query
get_iterator_query(generator, generator_asset, kwargs) ==
    LET query == "select * from " \o generator.database \o "." \o generator_asset
    IN  IF KeywordTruthy(kwargs_get(kwargs, "partition"))
        THEN query \o " where " \o Format(kwargs_get(kwargs, "date_field"))
                   \o " = \"" \o Format(kwargs_get(kwargs, "partition")) \o "\""
        ELSE query

GetIterator ==
    /\ gen.constructed
    /\ \E i \in 1..Len(TableNames), kwargs \in KeywordArguments :
        outcome' = [op |-> "_get_iterator", generator_asset |-> TableNames[i],
                    kwargs |-> kwargs,
                    raised |-> get_iterator_raises(kwargs),
                    value |-> IF get_iterator_raises(kwargs) THEN <<>>
                              ELSE <<[query |-> get_iterator_query(gen, TableNames[i], kwargs)]>>]
    /\ UNCHANGED <<gen, sql_issued, profiler_vars>>

(***************************************************************************)
(* Configurations.                                                         *)
(***************************************************************************)
ColumnKeys == {"columns", "included_columns", "excluded_columns"}
ExpectationKeys == {"included_expectations", "excluded_expectations"}

\* Expectation names a configuration may list: a table expectation, column
\* expectations of every kind of column, one that is available and never
\* created, one that is not available.
ConfigurableExpectations ==
    <<"expect_table_row_count_to_be_between",
      "expect_column_values_to_not_be_null",
      "expect_column_values_to_be_unique",
      "expect_column_min_to_be_between",
      "expect_column_values_to_match_regex",
      UnavailableExpectation>>

Increasing(s) == \A i \in 1..(Len(s) - 1) : s[i] < s[i + 1]

\* The lists of at most n of the names, in the order of `names`
ListsOf(names, n) ==
    {[i \in 1..Len(s) |-> names[s[i]]] :
        s \in {t \in SeqsUpTo(1..Len(names), n) : Increasing(t)}}

\* Column lists may repeat a column and name one that does not exist.
ColumnValues ==
    {None, False}
        \cup {List(s) : s \in SeqsUpTo(Range(get_table_columns) \cup {NonExistentColumn},
                                       MaxListLen)}

ExpectationValues ==
    {None, False} \cup {List(s) : s \in ListsOf(ConfigurableExpectations, MaxListLen)}

\* No configuration, an empty one, or one key.
RunConfigurations ==
    {NoConfiguration, Dict(<<>>)}
        \cup {Dict(k :> v) : k \in ColumnKeys, v \in ColumnValues}
        \cup {Dict(k :> v) : k \in ExpectationKeys, v \in ExpectationValues}

\* Any combination of the five keys; the lists name an existing and a
\* nonexistent column, or an available and an unavailable expectation.
Absent == [tag |-> "absent", items |-> <<>>]

ValidationColumnValues ==
    {None, False}
        \cup {List(s) : s \in ListsOf(<<NonExistentColumn, get_table_columns[1]>>, MaxListLen)}

ValidationExpectationValues ==
    {None, False}
        \cup {List(s) : s \in ListsOf(<<"expect_column_values_to_not_be_null",
                                        UnavailableExpectation>>, MaxListLen)}

MakeDict(columns, included_columns, excluded_columns, included, excluded) ==
    LET all == [k \in ColumnKeys \cup ExpectationKeys |->
                    CASE k = "columns" -> columns
                      [] k = "included_columns" -> included_columns
                      [] k = "excluded_columns" -> excluded_columns
                      [] k = "included_expectations" -> included
                      [] k = "excluded_expectations" -> excluded]
    IN  Dict([k \in {x \in DOMAIN all : all[x] # Absent} |-> all[k]])

ValidationConfigurations ==
    {NoConfiguration}
        \cup {MakeDict(a, b, c, d, e) :
                a \in ValidationColumnValues \cup {Absent},
                b \in ValidationColumnValues \cup {Absent},
                c \in ValidationColumnValues \cup {Absent},
                d \in ValidationExpectationValues \cup {Absent},
                e \in ValidationExpectationValues \cup {Absent}}

(***************************************************************************)
(* Specifications.                                                         *)
(***************************************************************************)
InitProfiler(configurations, tables) ==
    /\ configuration \in configurations
    /\ data \in tables
    /\ pc = "start"
    /\ included_expectations = List(<<>>)
    /\ excluded_expectations = List(<<>>)
    /\ selected_columns = List(get_table_columns)
    /\ pending = <<>>
    /\ column_cache = [c \in Range(get_table_columns) |-> NoEntry]
    /\ expectations = <<>>
    /\ catch_exceptions = "default"
    /\ interactive_evaluation = "default"
    /\ visits = [c \in Range(get_table_columns) |-> 0]
    /\ result = NoResult

InitGeneratorVars ==
    /\ gen = [constructed |-> FALSE, database |-> "", spark |-> "unset", session |-> ""]
    /\ sql_issued = <<>>
    /\ outcome = NoOutcome

\* _profile on a fresh dataset
Init == InitProfiler(RunConfigurations, Tables) /\ InitGeneratorVars

Next ==
    \/ ProfileValidate
    \/ ProfileSetup
    \/ ProfileColumn
    \/ ProfileRemove
    \/ ProfileReturn

Spec == Init /\ [][Next]_vars

\* The checks of the configuration alone, on every combination of keys
InitValidation == InitProfiler(ValidationConfigurations, {Table(0)}) /\ InitGeneratorVars

NextValidation == ProfileValidate

SpecValidation == InitValidation /\ [][NextValidation]_vars

\* The batch kwargs generator: construction, then any calls
InitGenerator == InitProfiler({NoConfiguration}, {Table(0)}) /\ InitGeneratorVars

NextGenerator ==
    \/ Construct
    \/ GetAvailableDataAssetNames
    \/ GetIterator

SpecGenerator == InitGenerator /\ [][NextGenerator]_vars

(***************************************************************************)
(* Properties.                                                             *)
(***************************************************************************)
ListedUnder(cfg, key) ==
    IF HasKey(cfg, key) /\ cfg.items[key].tag = "list"
    THEN Range(cfg.items[key].items)
    ELSE {}

NamesNonExistentColumn(cfg) ==
    \E key \in ColumnKeys :
        \E c \in ListedUnder(cfg, key) : c \notin Range(get_table_columns)

NamesUnavailableExpectation(cfg) ==
    \E key \in ExpectationKeys :
        \E e \in ListedUnder(cfg, key) : e \notin list_available_expectation_types

ColumnExpectationsOn(suite, column) ==
    {i \in 1..Len(suite) : suite[i].column = column}

\* C1: a configuration that names a column the table does not have (under
\* columns, included_columns or excluded_columns) or an expectation type the
\* dataset does not have (under included_expectations or
\* excluded_expectations) makes _profile raise ProfilerError.
C1_UnknownNameRaises ==
    (pc # "start" /\ (NamesNonExistentColumn(configuration)
                        \/ NamesUnavailableExpectation(configuration)))
        => (pc = "raised" /\ result.kind = "ProfilerError")

\* C2: with a `columns` key, every column-level expectation of the returned
\* suite is on a column listed under it.
C2_OnlyListedColumns ==
    (result.kind = "suite" /\ HasKey(configuration, "columns")
        /\ configuration.items["columns"].tag = "list")
        => \A i \in 1..Len(result.expectations) :
                result.expectations[i].column # NoColumn
                    => result.expectations[i].column \in ListedUnder(configuration, "columns")

\* C3: a configuration with both included_expectations and
\* excluded_expectations makes _profile raise ProfilerError, whatever the
\* values under the two keys and whatever other keys it has.
C3_BothExpectationKeysRaise ==
    (pc # "start" /\ HasKey(configuration, "included_expectations")
        /\ HasKey(configuration, "excluded_expectations"))
        => (pc = "raised" /\ result.kind = "ProfilerError")

\* The two keys hold values that are not lists of names, beside a column
\* key, and the call has raised.
C3_Witness ==
    /\ pc = "raised" /\ result.kind = "ProfilerError"
    /\ HasKey(configuration, "included_expectations")
    /\ HasKey(configuration, "excluded_expectations")
    /\ configuration.items["included_expectations"] = None
    /\ configuration.items["excluded_expectations"] = False
    /\ HasKey(configuration, "included_columns")

\* C4: a configuration with both included_columns and excluded_columns makes
\* _profile raise ProfilerError, whatever the values under the two keys and
\* whatever expectation keys it has.
C4_BothColumnKeysRaise ==
    (pc # "start" /\ HasKey(configuration, "included_columns")
        /\ HasKey(configuration, "excluded_columns"))
        => (pc = "raised" /\ result.kind = "ProfilerError")

\* The two keys hold existing columns or nothing, beside a list of
\* available expectations to include, and the call has raised.
C4_Witness ==
    /\ pc = "raised" /\ result.kind = "ProfilerError"
    /\ HasKey(configuration, "included_columns")
    /\ HasKey(configuration, "excluded_columns")
    /\ ~NamesNonExistentColumn(configuration)
    /\ HasKey(configuration, "included_expectations")
    /\ Truthy(configuration.items["included_expectations"])
    /\ ~NamesUnavailableExpectation(configuration)
    /\ ~HasKey(configuration, "excluded_expectations")

\* C5 as stated: a call of _get_iterator that passes a `partition` keyword,
\* whatever its value, and no (or an empty or None) date_field raises and
\* yields nothing.
C5_PartitionKeywordWithoutDateFieldRaises ==
    (outcome.op = "_get_iterator" /\ "partition" \in DOMAIN outcome.kwargs
        /\ ~KeywordTruthy(kwargs_get(outcome.kwargs, "date_field")))
        => (outcome.raised /\ outcome.value = <<>>)

\* C5 as amended: a call of _get_iterator that passes a non-empty partition
\* (one that is neither None nor empty) and no, or an empty or None,
\* date_field raises and yields nothing.
C5_PartitionWithoutDateFieldRaises ==
    (outcome.op = "_get_iterator"
        /\ KeywordTruthy(kwargs_get(outcome.kwargs, "partition"))
        /\ ~KeywordTruthy(kwargs_get(outcome.kwargs, "date_field")))
        => (outcome.raised /\ outcome.value = <<>>)

\* A partition was passed with an empty date_field, and the call raised.
C5_Witness ==
    /\ outcome.op = "_get_iterator"
    /\ kwargs_get(outcome.kwargs, "partition") = "2020-01-01"
    /\ "date_field" \in DOMAIN outcome.kwargs
    /\ outcome.kwargs["date_field"] = ""
    /\ outcome.raised

\* C6: when obtaining the session fails in the constructor, the generator is
\* constructed with spark = None, and get_available_data_asset_names issues
\* no statement, does not raise and returns no names.
C6_NoSessionNoNames ==
    (gen.constructed /\ gen.session # "available")
        => /\ gen.spark = "None"
           /\ sql_issued = <<>>
           /\ outcome.op = "get_available_data_asset_names"
                => (~outcome.raised /\ outcome.value = <<>>)

\* The import was missing and the table listing returned.
C6_Witness ==
    /\ gen.constructed /\ gen.session = "import missing"
    /\ outcome.op = "get_available_data_asset_names"
    /\ outcome.value = <<>>

\* C7: without a configuration (None or empty), the returned suite has at
\* least one column-level expectation on every column of the table.
C7_EveryColumnGetsAnExpectation ==
    (result.kind = "suite" /\ ~ConfigurationGiven(configuration))
        => \A c \in Range(get_table_columns) :
                ColumnExpectationsOn(result.expectations, c) # {}

\* C8: with a non-empty excluded_expectations, the returned suite has no
\* expectation of an excluded type.
C8_NoExcludedExpectation ==
    (result.kind = "suite" /\ Truthy(excluded_expectations))
        => \A i \in 1..Len(result.expectations) :
                result.expectations[i].expectation_type
                    \notin ListedUnder(configuration, "excluded_expectations")

\* expect_column_values_to_be_unique was excluded; a column on which it was
\* created, and failed, has been profiled and keeps its other expectations.
C8_Witness ==
    /\ result.kind = "suite"
    /\ "expect_column_values_to_be_unique"
            \in ListedUnder(configuration, "excluded_expectations")
    /\ \E c \in Range(get_table_columns) :
        /\ data[c].cardinality = "MANY"
        /\ visits[c] = 1
        /\ ColumnExpectationsOn(result.expectations, c) # {}

\* C9: with a non-empty included_expectations, every expectation of the
\* returned suite has an included type.
C9_OnlyIncludedExpectations ==
    (result.kind = "suite" /\ Truthy(included_expectations))
        => \A i \in 1..Len(result.expectations) :
                result.expectations[i].expectation_type
                    \in ListedUnder(configuration, "included_expectations")

\* The per-column loop has run to its end.
LoopCompleted == pc = "removed" \/ (pc = "returned" /\ included_expectations # None)

\* C10: with included_columns, every column-level expectation the loop
\* leaves in the dataset's suite is on an included column; with
\* excluded_columns, none is on an excluded column, and once the loop has
\* run every other column of the table was visited exactly once (all of
\* them when the value is False, None or []).
C10_ColumnSelection ==
    /\ HasKey(configuration, "included_columns")
        => \A i \in 1..Len(expectations) :
                expectations[i].column # NoColumn
                    => expectations[i].column \in ListedUnder(configuration, "included_columns")
    /\ HasKey(configuration, "excluded_columns")
        => /\ \A i \in 1..Len(expectations) :
                expectations[i].column
                    \notin ListedUnder(configuration, "excluded_columns")
           /\ \A c \in Range(get_table_columns) :
                /\ c \in ListedUnder(configuration, "excluded_columns") => visits[c] = 0
                /\ (LoopCompleted /\ c \notin ListedUnder(configuration, "excluded_columns"))
                        => visits[c] = 1

\* The first column was excluded; the loop has run, the second column has
\* its expectations.
C10_Witness ==
    /\ LoopCompleted
    /\ HasKey(configuration, "excluded_columns")
    /\ ListedUnder(configuration, "excluded_columns") = {get_table_columns[1]}
    /\ visits[get_table_columns[2]] = 1
    /\ ColumnExpectationsOn(expectations, get_table_columns[2]) # {}

\* C11: every min, max, mean, median and quantile expectation that
\* _create_expectations_for_numeric_column leaves on a numeric column in the
\* dataset's suite has its bounds set from the observed value (-1 / +1);
\* none is left with bounds of None, also when an observed value is NaN or
\* the quantile query reports an exception.
NumericRangeExpectations ==
    {StatisticExpectation(Statistics[i]) : i \in 1..Len(Statistics)}
        \cup {"expect_column_quantile_values_to_be_between"}

C11_NumericRangesBounded ==
    \A i \in 1..Len(expectations) :
        (/\ expectations[i].column # NoColumn
         /\ data[expectations[i].column].type \in {"INT", "FLOAT"}
         /\ expectations[i].expectation_type \in NumericRangeExpectations)
            => expectations[i].range = "set"

\* C12: a call of _get_iterator that returns yields exactly one batch kwargs
\* mapping; its query is `select * from <database>.<table>`, followed by
\* ` where <date_field> = "<partition>"` exactly when a non-empty partition
\* and a non-empty date_field were both passed (a date_field without a
\* partition leaves the query unfiltered; a partition without a date_field
\* raises, which is C5).
C12_Query ==
    (outcome.op = "_get_iterator" /\ ~outcome.raised)
        => /\ Len(outcome.value) = 1
           /\ DOMAIN outcome.value[1] = {"query"}
           /\ outcome.value[1].query =
                "select * from " \o gen.database \o "." \o outcome.generator_asset
                    \o (IF /\ KeywordTruthy(kwargs_get(outcome.kwargs, "partition"))
                           /\ KeywordTruthy(kwargs_get(outcome.kwargs, "date_field"))
                        THEN " where " \o outcome.kwargs["date_field"] \o " = \""
                                \o outcome.kwargs["partition"] \o "\""
                        ELSE "")

\* A date_field was passed without a partition, and the query that came back
\* has no filter.
C12_Witness ==
    /\ outcome.op = "_get_iterator" /\ ~outcome.raised
    /\ DOMAIN outcome.kwargs = {"date_field"}
    /\ outcome.kwargs["date_field"] = "dt"
    /\ gen.database = "sales" /\ outcome.generator_asset = "users"
    /\ outcome.value = <<[query |-> "select * from sales.users"]>>

\* C13: when _profile raises ProfilerError (conflicting keys, an unavailable
\* expectation name, a selected column the table does not have), the dataset
\* is as it was at the call: its suite has no expectation added or removed,
\* and neither the default catch_exceptions argument nor the
\* interactive_evaluation config value has been set.
C13_ValidationPrecedesMutation ==
    (pc = "raised" /\ result.kind = "ProfilerError")
        => /\ expectations = <<>>
           /\ catch_exceptions = "default"
           /\ interactive_evaluation = "default"

\* The call raised for an included column the table does not have, after
\* available expectations were read from included_expectations.
C13_Witness ==
    /\ pc = "raised" /\ result.kind = "ProfilerError"
    /\ NonExistentColumn \in ListedUnder(configuration, "included_columns")
    /\ ~HasKey(configuration, "excluded_columns")
    /\ ListedUnder(configuration, "included_expectations") # {}
    /\ ~NamesUnavailableExpectation(configuration)
    /\ ~HasKey(configuration, "excluded_expectations")
    /\ expectations = <<>>

=============================================================================
